---- MODULE Spec2Model ----
(***************************************************************************)
(* A model of pdf-ai-context-extractor: the multi-strategy table           *)
(* extraction of core.py, the locale detection and the amount and date     *)
(* normalisation of locale_detector.py, and the bank statement parser of   *)
(* parsers.py.                                                             *)
(*                                                                         *)
(* Text is a sequence of one-character strings.  An optional value is a    *)
(* sequence: None is <<>> and a present value x is <<x>>.                   *)
(*                                                                         *)
(* Each entry point has a specification of its own (SpecExtract,           *)
(* SpecLocale, ...): its Init draws the inputs of one call and its actions *)
(* are the steps of the call; the variables of the other entry points rest *)
(* at their idle values.                                                   *)
(***************************************************************************)
EXTENDS Integers, Sequences, FiniteSets, TLC

VARIABLES
    \* PDFTableExtractor.extract_tables
    epc, i, best_result, best_method, max_rows, outcomes, attempted, eret,
    \* LocaleDetector: the constructor and detect_locale
    lpc, requested_default, default_locale, filename, df, explicit_locale,
    content_result, consulted, lret,
    \* locale_detector.clean_amount
    apc, atext, alocale, aconfig, ashape, aret,
    \* locale_detector.parse_date
    dpc, dtext, dlocale, dconfig, dret,
    \* parsers.bank_statement_parser
    ppc, psupplied, ptable, pfilename, pidx, transactions, pret, perror,
    \* A detector and the registry over a series of calls
    rpc, registry, detector, constructed, rlog, rtimes

evars == <<epc, i, best_result, best_method, max_rows, outcomes, attempted, eret>>
lvars == <<lpc, requested_default, default_locale, filename, df, explicit_locale,
           content_result, consulted, lret>>

avars == <<apc, atext, alocale, aconfig, ashape, aret>>

dvars == <<dpc, dtext, dlocale, dconfig, dret>>

pvars == <<ppc, psupplied, ptable, pfilename, pidx, transactions, pret, perror>>

rvars == <<rpc, registry, detector, constructed, rlog, rtimes>>

vars == <<evars, lvars, avars, dvars, pvars, rvars>>

notE == <<lvars, avars, dvars, pvars, rvars>>
notL == <<evars, avars, dvars, pvars, rvars>>
notA == <<evars, lvars, dvars, pvars, rvars>>
notD == <<evars, lvars, avars, pvars, rvars>>
notP == <<evars, lvars, avars, dvars, rvars>>

notR == <<evars, lvars, avars, dvars, pvars>>

\* ------------------------------------------------------------------------
\* Optional values
\* ------------------------------------------------------------------------
None == <<>>
Some(x) == <<x>>

\* F applied to the value of v: v is evaluated once, before F uses it.
Once(F(_), v) == CHOOSE r \in {F(x) : x \in {v}} : TRUE

\* ------------------------------------------------------------------------
\* Bounds of the model
\* ------------------------------------------------------------------------
\* Tables one engine call returns at most.
MaxTables == 2
\* Rows one table holds at most.
MaxRows == 1

\* ------------------------------------------------------------------------
\* core.py: PDFTableExtractor.extract_tables
\* ------------------------------------------------------------------------
methods == <<"lattice", "stream", "guess">>

RECURSIVE SeqSum(_)
SeqSum(s) == IF s = <<>> THEN 0 ELSE Head(s) + SeqSum(Tail(s))

\* The tables tabula.read_pdf returns for one mode: table t holds sizes[t]
\* rows, and a row is tagged with the mode, the table and its place in it.
MkTables(method, sizes) ==
    [t \in 1..Len(sizes) |-> [r \in 1..sizes[t] |-> <<method, t, r>>]]

TableSizes == UNION {[1..n -> 0..MaxRows] : n \in 0..MaxTables}

\* What one call of the engine does: it raises, or returns a list of tables.
EngineOutcomes(method) ==
    {[kind |-> "raise", tables |-> <<>>]}
    \cup {[kind |-> "tables", tables |-> MkTables(method, sz)] : sz \in TableSizes}

\* pd.concat(tables, ignore_index=True): the rows of the tables, in order.
RECURSIVE Concat(_)
Concat(tables) ==
    IF tables = <<>> THEN <<>> ELSE Head(tables) \o Concat(Tail(tables))

\* `except Exception`: every error the engine raises is an Exception.
ExceptCatches_Reraise(kind) == FALSE
ExceptCatches(kind) == kind = "raise"

\* `len(combined) > max_rows`
Improves_AtLeast(n, m) == n >= m
Improves_Last(n, m) == n > 0
Improves(n, m) == n > m

\* The body of the loop for one mode (lines 29-44), on the locals st.
TryMethod(method, out, st) ==
    IF out.kind = "raise"
    THEN [st EXCEPT !.propagated = ~ExceptCatches(out.kind)]
    ELSE IF out.tables # <<>>
         THEN LET combined == Concat(out.tables) IN
              IF Improves(Len(combined), st.max_rows)
              THEN [st EXCEPT !.max_rows = Len(combined),
                              !.best_result = Some(combined),
                              !.best_method = method]
              ELSE st
         ELSE st

\* ------------------------------------------------------------------------
\* Text: str methods and the regular expressions of the re module
\* ------------------------------------------------------------------------
\* The characters \d matches, and the characters \s, str.strip and float
\* take for whitespace (the last one is the no-break space).
Digit == {"0", "1", "2", "3", "4", "5", "6", "7", "8", "9"}
Whitespace == {" ", "\t", "\n", "\r", "\f", " "}

UpperChars == <<"A", "B", "C", "D", "E", "F", "G", "H", "I", "J", "K", "L", "M", "N", "O", "P", "Q", "R", "S", "T", "U", "V", "W", "X", "Y", "Z", "É", "È", "À", "Ç", "Ä", "Ö", "Ü", "Û">>
LowerChars == <<"a", "b", "c", "d", "e", "f", "g", "h", "i", "j", "k", "l", "m", "n", "o", "p", "q", "r", "s", "t", "u", "v", "w", "x", "y", "z", "é", "è", "à", "ç", "ä", "ö", "ü", "û">>

\* str.lower, one character.
LowerChar(c) ==
    IF \E k \in 1..Len(UpperChars) : UpperChars[k] = c
    THEN LowerChars[CHOOSE k \in 1..Len(UpperChars) : UpperChars[k] = c]
    ELSE c

\* str.lower
Lower(s) == Once(LAMBDA v : [k \in 1..Len(v) |-> LowerChar(v[k])], s)

\* Whether the text s holds the text sub at position p.
HasAt(s, p, sub) ==
    /\ p + Len(sub) - 1 <= Len(s)
    /\ \A j \in 1..Len(sub) : s[p + j - 1] = sub[j]

\* `sub in s` (both texts are taken as values first).
Contains(sub, s) ==
    \E t \in {s} : \E u \in {sub} :
        \E p \in 1..(Len(t) - Len(u) + 1) : HasAt(t, p, u)

\* sep.join(parts)
RECURSIVE Join(_, _)
Join(sep, parts) ==
    IF parts = <<>> THEN <<>>
    ELSE IF Len(parts) = 1 THEN parts[1]
    ELSE parts[1] \o sep \o Join(sep, Tail(parts))

\* str.replace(old, "") for a one-character old: every occurrence goes.
Remove(s, old) == SelectSeq(s, LAMBDA c : c # old)

\* str.replace(old, new), both one character.
Replace(s, old, new) ==
    Once(LAMBDA v : [k \in 1..Len(v) |-> IF v[k] = old THEN new ELSE v[k]], s)

\* str.strip(): the whitespace at both ends goes.
StripValue(v) ==
    Once(LAMBDA inner :
            IF inner = {} THEN <<>>
            ELSE SubSeq(v, CHOOSE k \in inner : \A j \in inner : k <= j,
                           CHOOSE k \in inner : \A j \in inner : k >= j),
         {k \in 1..Len(v) : v[k] \notin Whitespace})

Strip(s) == Once(LAMBDA v : StripValue(v), s)

\* A regular expression is a sequence of items: a character class with its
\* repetition min..max (max -1: unbounded), or an alternation of literals.
Cls(c, lo, hi) == [kind |-> "class", cls |-> c, min |-> lo, max |-> hi, alts |-> <<>>]
Lit(ch) == Cls({ch}, 1, 1)
Alt(options) == [kind |-> "alt", cls |-> {}, min |-> 1, max |-> 1, alts |-> options]

\* How many characters of the class stand at position p of s, cap at most
\* (the greedy take of a repetition).
RECURSIVE RunLen(_, _, _, _)
RunLen(s, p, cls, cap) ==
    IF cap = 0 \/ p > Len(s) \/ s[p] \notin cls THEN 0
    ELSE 1 + RunLen(s, p + 1, cls, IF cap < 0 THEN cap ELSE cap - 1)

\* The backtracking match of the items k.. of pat at position p of s: the
\* position after the match, 0 when there is none.  A repetition takes as
\* many characters as it can and gives back one at a time; an alternation
\* tries its literals in order.
RECURSIVE MatchEnd(_, _, _, _)
RECURSIVE TryCount(_, _, _, _, _)
RECURSIVE TryAlt(_, _, _, _, _)
MatchEnd(pat, k, s, p) ==
    IF k > Len(pat) THEN p
    ELSE IF pat[k].kind = "class"
         THEN TryCount(pat, k, s, p, RunLen(s, p, pat[k].cls, pat[k].max))
         ELSE TryAlt(pat, k, s, p, 1)

TryCount(pat, k, s, p, c) ==
    IF c < pat[k].min THEN 0
    ELSE LET e == MatchEnd(pat, k + 1, s, p + c) IN
         IF e # 0 THEN e ELSE TryCount(pat, k, s, p, c - 1)

TryAlt(pat, k, s, p, a) ==
    IF a > Len(pat[k].alts) THEN 0
    ELSE LET e == IF HasAt(s, p, pat[k].alts[a])
                  THEN MatchEnd(pat, k + 1, s, p + Len(pat[k].alts[a]))
                  ELSE 0
         IN IF e # 0 THEN e ELSE TryAlt(pat, k, s, p, a + 1)

\* re.search(pat, s) from position p on: the leftmost match as
\* <<start, end + 1>>, None when there is none.
RECURSIVE SearchFrom(_, _, _)
SearchFrom(pat, s, p) ==
    IF p > Len(s) + 1 THEN None
    ELSE LET e == MatchEnd(pat, 1, s, p) IN
         IF e # 0 THEN Some(<<p, e>>) ELSE SearchFrom(pat, s, p + 1)

Search(pat, s) == Once(LAMBDA v : SearchFrom(pat, v, 1), s)

\* match.group(0)
Group0(s, m) == SubSeq(s, m[1], m[2] - 1)

\* re.findall(pat, s): the matches left to right, none overlapping (the
\* patterns of this program match no empty text).
RECURSIVE FindAllFrom(_, _, _)
FindAllFrom(pat, s, p) ==
    LET m == SearchFrom(pat, s, p) IN
    IF m = None THEN <<>>
    ELSE <<Group0(s, m[1])>> \o FindAllFrom(pat, s, m[1][2])

FindAll(pat, s) == Once(LAMBDA v : FindAllFrom(pat, v, 1), s)

\* ------------------------------------------------------------------------
\* locale_detector.py: LOCALES
\* ------------------------------------------------------------------------
DateSlash == <<Cls(Digit, 1, 2), Lit("/"), Cls(Digit, 1, 2), Lit("/"), Cls(Digit, 4, 4)>>
DateDot == <<Cls(Digit, 1, 2), Lit("."), Cls(Digit, 1, 2), Lit("."), Cls(Digit, 4, 4)>>
DateIso == <<Cls(Digit, 4, 4), Lit("-"), Cls(Digit, 1, 2), Lit("-"), Cls(Digit, 1, 2)>>
DateMonth(names) ==
    <<Cls(Digit, 1, 2), Cls(Whitespace, 1, -1), Alt(names),
      Cls(Whitespace, 1, -1), Cls(Digit, 4, 4)>>

MonthsFr ==
    <<<<"j", "a", "n", "v", "i", "e", "r">>, <<"f", "é", "v", "r", "i", "e", "r">>, <<"m", "a", "r", "s">>, <<"a", "v", "r", "i", "l">>, <<"m", "a", "i">>, <<"j", "u", "i", "n">>,
      <<"j", "u", "i", "l", "l", "e", "t">>, <<"a", "o", "û", "t">>, <<"s", "e", "p", "t", "e", "m", "b", "r", "e">>, <<"o", "c", "t", "o", "b", "r", "e">>, <<"n", "o", "v", "e", "m", "b", "r", "e">>,
      <<"d", "é", "c", "e", "m", "b", "r", "e">>>>
MonthsDe ==
    <<<<"J", "a", "n", "u", "a", "r">>, <<"F", "e", "b", "r", "u", "a", "r">>, <<"M", "ä", "r", "z">>, <<"A", "p", "r", "i", "l">>, <<"M", "a", "i">>, <<"J", "u", "n", "i">>,
      <<"J", "u", "l", "i">>, <<"A", "u", "g", "u", "s", "t">>, <<"S", "e", "p", "t", "e", "m", "b", "e", "r">>, <<"O", "k", "t", "o", "b", "e", "r">>, <<"N", "o", "v", "e", "m", "b", "e", "r">>,
      <<"D", "e", "z", "e", "m", "b", "e", "r">>>>
MonthsEn ==
    <<<<"J", "a", "n", "u", "a", "r", "y">>, <<"F", "e", "b", "r", "u", "a", "r", "y">>, <<"M", "a", "r", "c", "h">>, <<"A", "p", "r", "i", "l">>, <<"M", "a", "y">>, <<"J", "u", "n", "e">>,
      <<"J", "u", "l", "y">>, <<"A", "u", "g", "u", "s", "t">>, <<"S", "e", "p", "t", "e", "m", "b", "e", "r">>, <<"O", "c", "t", "o", "b", "e", "r">>, <<"N", "o", "v", "e", "m", "b", "e", "r">>,
      <<"D", "e", "c", "e", "m", "b", "e", "r">>>>

KeywordsFr ==
    <<<<"s", "o", "l", "d", "e">>, <<"c", "r", "é", "d", "i", "t">>, <<"d", "é", "b", "i", "t">>, <<"v", "i", "r", "e", "m", "e", "n", "t">>, <<"p", "r", "é", "l", "è", "v", "e", "m", "e", "n", "t">>,
      <<"m", "o", "n", "t", "a", "n", "t">>, <<"d", "a", "t", "e">>, <<"o", "p", "é", "r", "a", "t", "i", "o", "n">>, <<"f", "a", "c", "t", "u", "r", "e">>, <<"r", "e", "l", "e", "v", "é">>,
      <<"j", "a", "n", "v", "i", "e", "r">>, <<"f", "é", "v", "r", "i", "e", "r">>, <<"m", "a", "r", "s">>, <<"a", "v", "r", "i", "l">>, <<"m", "a", "i">>, <<"j", "u", "i", "n">>,
      <<"j", "u", "i", "l", "l", "e", "t">>, <<"a", "o", "û", "t">>, <<"s", "e", "p", "t", "e", "m", "b", "r", "e">>, <<"o", "c", "t", "o", "b", "r", "e">>, <<"n", "o", "v", "e", "m", "b", "r", "e">>,
      <<"d", "é", "c", "e", "m", "b", "r", "e">>>>
KeywordsDe ==
    <<<<"s", "a", "l", "d", "o">>, <<"k", "r", "e", "d", "i", "t">>, <<"l", "a", "s", "t", "s", "c", "h", "r", "i", "f", "t">>, <<"ü", "b", "e", "r", "w", "e", "i", "s", "u", "n", "g">>, <<"b", "e", "t", "r", "a", "g">>,
      <<"d", "a", "t", "u", "m">>, <<"b", "u", "c", "h", "u", "n", "g">>, <<"r", "e", "c", "h", "n", "u", "n", "g">>, <<"k", "o", "n", "t", "o", "a", "u", "s", "z", "u", "g">>,
      <<"j", "a", "n", "u", "a", "r">>, <<"f", "e", "b", "r", "u", "a", "r">>, <<"m", "ä", "r", "z">>, <<"a", "p", "r", "i", "l">>, <<"m", "a", "i">>, <<"j", "u", "n", "i">>,
      <<"j", "u", "l", "i">>, <<"a", "u", "g", "u", "s", "t">>, <<"s", "e", "p", "t", "e", "m", "b", "e", "r">>, <<"o", "k", "t", "o", "b", "e", "r">>, <<"n", "o", "v", "e", "m", "b", "e", "r">>,
      <<"d", "e", "z", "e", "m", "b", "e", "r">>>>
KeywordsEn ==
    <<<<"b", "a", "l", "a", "n", "c", "e">>, <<"c", "r", "e", "d", "i", "t">>, <<"d", "e", "b", "i", "t">>, <<"t", "r", "a", "n", "s", "f", "e", "r">>, <<"p", "a", "y", "m", "e", "n", "t">>,
      <<"a", "m", "o", "u", "n", "t">>, <<"d", "a", "t", "e">>, <<"t", "r", "a", "n", "s", "a", "c", "t", "i", "o", "n">>, <<"i", "n", "v", "o", "i", "c", "e">>, <<"s", "t", "a", "t", "e", "m", "e", "n", "t">>,
      <<"j", "a", "n", "u", "a", "r", "y">>, <<"f", "e", "b", "r", "u", "a", "r", "y">>, <<"m", "a", "r", "c", "h">>, <<"a", "p", "r", "i", "l">>, <<"m", "a", "y">>, <<"j", "u", "n", "e">>,
      <<"j", "u", "l", "y">>, <<"a", "u", "g", "u", "s", "t">>, <<"s", "e", "p", "t", "e", "m", "b", "e", "r">>, <<"o", "c", "t", "o", "b", "e", "r">>, <<"n", "o", "v", "e", "m", "b", "e", "r">>,
      <<"d", "e", "c", "e", "m", "b", "e", "r">>>>

\* The keys of LOCALES in the order a dict iterates them.
LocaleCodes == <<"fr", "de", "en">>

LOCALES ==
    [fr |-> [code |-> "fr", name |-> "French",
             date_patterns |-> <<DateSlash, DateDot, DateMonth(MonthsFr)>>,
             decimal_separator |-> ",", thousands_separator |-> " ",
             keywords |-> KeywordsFr],
     de |-> [code |-> "de", name |-> "German",
             date_patterns |-> <<DateDot, DateSlash, DateMonth(MonthsDe)>>,
             decimal_separator |-> ",", thousands_separator |-> ".",
             keywords |-> KeywordsDe],
     en |-> [code |-> "en", name |-> "English",
             date_patterns |-> <<DateSlash, DateIso, DateMonth(MonthsEn)>>,
             decimal_separator |-> ".", thousands_separator |-> ",",
             keywords |-> KeywordsEn]]

\* `code in LOCALES`
InLocales_Any(code) == TRUE
InLocales(code) == code \in DOMAIN LOCALES

\* ------------------------------------------------------------------------
\* locale_detector.py: LocaleDetector
\* ------------------------------------------------------------------------
\* self._confidence_threshold = 0.3, as the fraction 3/10.
ThresholdNum == 3
ThresholdDen == 10

\* lang_indicators of detect_from_filename, in the order of LocaleCodes.
lang_indicators ==
    [fr |-> <<<<"_", "f", "r">>, <<"-", "f", "r">>, <<"f", "r", "e", "n", "c", "h">>, <<"f", "r", "a", "n", "c", "a", "i", "s">>, <<"f", "r", "a", "n", "ç", "a", "i", "s">>, <<"f", "r", "a", "n", "c", "e">>>>,
     de |-> <<<<"_", "d", "e">>, <<"-", "d", "e">>, <<"g", "e", "r", "m", "a", "n">>, <<"d", "e", "u", "t", "s", "c", "h">>, <<"d", "e", "u", "t", "s", "c", "h", "l", "a", "n", "d">>, <<"g", "e", "r", "m", "a", "n", "y">>>>,
     en |-> <<<<"_", "e", "n">>, <<"-", "e", "n">>, <<"e", "n", "g", "l", "i", "s", "h">>, <<"u", "k">>, <<"u", "s", "a">>, <<"u", "s">>>>]

\* `any(ind in filename_lower for ind in indicators)`
AnyIndicator(code, filename_lower) ==
    \E k \in 1..Len(lang_indicators[code]) :
        Contains(lang_indicators[code][k], filename_lower)

\* The loop of detect_from_filename over the locales from the k-th on.
RECURSIVE FirstIndicated(_, _)
FirstIndicated(filename_lower, k) ==
    IF k > Len(LocaleCodes) THEN None
    ELSE IF AnyIndicator(LocaleCodes[k], filename_lower) THEN Some(LocaleCodes[k])
    ELSE FirstIndicated(filename_lower, k + 1)

\* The same loop with the locales taken from the last to the first.
RECURSIVE LastIndicated(_, _)
LastIndicated(filename_lower, k) ==
    IF k < 1 THEN None
    ELSE IF AnyIndicator(LocaleCodes[k], filename_lower) THEN Some(LocaleCodes[k])
    ELSE LastIndicated(filename_lower, k - 1)

detect_from_filename_Reversed(fname) == LastIndicated(Lower(fname), Len(LocaleCodes))
detect_from_filename(fname) == FirstIndicated(Lower(fname), 1)

\* A DataFrame is a sequence of rows, a row a sequence of cells, a cell None
\* (NaN) or the text str(val) gives.  df.empty: no row or no column.
Empty(rows) == rows = <<>> \/ rows[1] = <<>>

\* The values of the cells that are not NaN, row after row, lower-cased.
RECURSIVE CellTexts(_)
CellTexts(cells) ==
    IF cells = <<>> THEN <<>>
    ELSE IF Head(cells) = None THEN CellTexts(Tail(cells))
    ELSE <<Lower(Head(cells)[1])>> \o CellTexts(Tail(cells))

\* ' '.join(str(val).lower() for row in df.values for val in row if pd.notna(val))
ContentText(rows) == Join(<<" ">>, CellTexts(Concat(rows)))

\* sum(1 for keyword in config.keywords if keyword.lower() in text), from
\* the k-th keyword on.
RECURSIVE KeywordCount(_, _, _)
KeywordCount(keywords, k, text) ==
    IF k > Len(keywords) THEN 0
    ELSE (IF Contains(Lower(keywords[k]), text) THEN 1 ELSE 0)
         + KeywordCount(keywords, k + 1, text)

\* scores[locale_code]: the fraction <<keyword_count, len(config.keywords)>>.
Score(code, text) ==
    <<KeywordCount(LOCALES[code].keywords, 1, text), Len(LOCALES[code].keywords)>>

\* The dict scores (lines 168-175): the scores in the order of LocaleCodes,
\* from the k-th locale on.
RECURSIVE Scores(_, _)
Scores(text, k) ==
    IF k > Len(LocaleCodes) THEN <<>>
    ELSE <<Score(LocaleCodes[k], text)>> \o Scores(text, k + 1)

\* a > b and a >= b for fractions with positive denominators.
RatGreater(a, b) == a[1] * b[2] > b[1] * a[2]
RatAtLeast(a, b) == a[1] * b[2] >= b[1] * a[2]

\* The comparison max() makes: a later key replaces the best one only when
\* its score is greater.
Beats_OnTie(a, b) == RatAtLeast(a, b)
Beats(a, b) == RatGreater(a, b)

\* max(scores, key=scores.get): the place of the first key whose score none
\* exceeds, with the keys before k seen and best the best of them.
RECURSIVE MaxKey(_, _, _)
MaxKey(scores, k, best) ==
    IF k > Len(scores) THEN best
    ELSE MaxKey(scores, k + 1, IF Beats(scores[k], scores[best]) THEN k ELSE best)

\* `confidence >= self._confidence_threshold`
AboveThreshold_Half(confidence) == RatAtLeast(confidence, <<5, ThresholdDen>>)
AboveThreshold(confidence) == RatAtLeast(confidence, <<ThresholdNum, ThresholdDen>>)

\* Lines 180-188 of detect_from_content, on the scores.
BestOf(scores) ==
    LET best == MaxKey(scores, 2, 1)
        confidence == scores[best]
    IN IF AboveThreshold(confidence)
       THEN [locale |-> Some(LocaleCodes[best]), confidence |-> confidence]
       ELSE [locale |-> None, confidence |-> confidence]

\* Lines 164-188 of detect_from_content, on the joined text.
ScoreText(text) ==
    IF text = <<>> THEN [locale |-> None, confidence |-> <<0, 1>>]
    ELSE Once(LAMBDA scores : BestOf(scores), Scores(text, 1))

\* detect_from_content(df): the locale (or None) and the confidence.
detect_from_content(d) ==
    IF d = None \/ Empty(d[1]) THEN [locale |-> None, confidence |-> <<0, 1>>]
    ELSE Once(LAMBDA text : ScoreText(text), ContentText(d[1]))

\* str(n) for n >= 0.
DigitChars == <<"0", "1", "2", "3", "4", "5", "6", "7", "8", "9">>
RECURSIVE IntText(_)
IntText(n) ==
    IF n < 10 THEN <<DigitChars[n + 1]>>
    ELSE IntText(n \div 10) \o <<DigitChars[(n % 10) + 1]>>

\* f'{confidence:.2%}': the percentage rounded to two decimals.
PercentText(confidence) ==
    LET h == (2 * 10000 * confidence[1] + confidence[2]) \div (2 * confidence[2]) IN
    IntText(h \div 100) \o <<".">> \o <<DigitChars[((h \div 10) % 10) + 1]>>
        \o <<DigitChars[(h % 10) + 1]>> \o <<"%">>

\* f'content (confidence: {confidence:.2%})'
ContentMethod_Plain(confidence) == <<"c", "o", "n", "t", "e", "n", "t">>
ContentMethod(confidence) ==
    <<"c", "o", "n", "t", "e", "n", "t", " ", "(", "c", "o", "n", "f", "i", "d", "e", "n", "c", "e", ":", " ">> \o PercentText(confidence) \o <<")">>

\* `if explicit_locale:`: given and not the empty string.
Truthy(explicit) == explicit # None /\ explicit # Some("")

\* Step 1 of detect_locale (lines 214-218): the result, None to go on.
ExplicitStep_Unchecked(explicit) ==
    IF Truthy(explicit) THEN Some(<<explicit[1], <<"e", "x", "p", "l", "i", "c", "i", "t">>>>) ELSE None
ExplicitStep(explicit) ==
    IF Truthy(explicit) /\ InLocales(explicit[1])
    THEN Some(<<explicit[1], <<"e", "x", "p", "l", "i", "c", "i", "t">>>>)
    ELSE None

\* Step 2 (lines 221-223).
FilenameStep(fname) ==
    LET filename_locale == detect_from_filename(fname) IN
    IF filename_locale # None THEN Some(<<filename_locale[1], <<"f", "i", "l", "e", "n", "a", "m", "e">>>>) ELSE None

\* Step 3 (lines 228-229), on what detect_from_content returned.
ContentStep(r) ==
    IF r.locale # None
    THEN Some(<<r.locale[1], ContentMethod(r.confidence)>>)
    ELSE None

\* Step 4 (line 232).
DefaultStep(default) == Some(<<default, <<"d", "e", "f", "a", "u", "l", "t">>>>)


\* detect_locale(filename, df, explicit_locale) of a detector whose default
\* locale is default (lines 213-232): the first step that gives a result.
detect_locale(default, fname, d, explicit) ==
    IF ExplicitStep(explicit) # None THEN ExplicitStep(explicit)
    ELSE IF FilenameStep(fname) # None THEN FilenameStep(fname)
    ELSE IF d # None /\ ContentStep(detect_from_content(d)) # None
         THEN ContentStep(detect_from_content(d))
    ELSE DefaultStep(default)

\* What a call leaves in self.default_locale: no method but __init__
\* assigns it.
DefaultAfter_Sticky(default, result) == result[1][1]
DefaultAfter(default, result) == default

\* ------------------------------------------------------------------------
\* float(text)
\* ------------------------------------------------------------------------
\* A float is a record: kind "finite" with the sign, the decimal digits
\* without leading and trailing zeros and the power of ten they are times
\* (1234.56 is 123456 times 10^-2; zero has no digit and no sign: 0.0 and
\* -0.0 are equal), or kind "inf" with the sign, or kind "nan".
Finite(neg, digits, e10) == [kind |-> "finite", neg |-> neg, digits |-> digits, e10 |-> e10]
Infinite(neg) == [kind |-> "inf", neg |-> neg, digits |-> <<>>, e10 |-> 0]
NaN == [kind |-> "nan", neg |-> FALSE, digits |-> <<>>, e10 |-> 0]

\* digit (["_"] digit)*
IsDigitPart(d) ==
    /\ Len(d) >= 1
    /\ d[1] \in Digit /\ d[Len(d)] \in Digit
    /\ \A k \in 1..Len(d) : d[k] \in Digit \cup {"_"}
    /\ \A k \in 1..(Len(d) - 1) : ~(d[k] = "_" /\ d[k + 1] = "_")

\* The place of the first character of s that is in cs, Len(s) + 1 if none.
FirstOf(s, cs) ==
    IF \E k \in 1..Len(s) : s[k] \in cs
    THEN CHOOSE k \in 1..Len(s) : s[k] \in cs /\ \A j \in 1..(k - 1) : s[j] \notin cs
    ELSE Len(s) + 1

\* The digits of a digit part.
DigitsOf(d) == SelectSeq(d, LAMBDA c : c \in Digit)

\* The digits without the zeros they start with, and without those they end with.
NoLeadingZeros(d) == SubSeq(d, FirstOf(d, Digit \ {"0"}), Len(d))
TrailingZeros(d) ==
    IF \E k \in 1..Len(d) : d[k] # "0"
    THEN Len(d) - (CHOOSE k \in 1..Len(d) : d[k] # "0" /\ \A j \in (k + 1)..Len(d) : d[j] = "0")
    ELSE Len(d)

\* The value of at most four decimal digits; 9999 for more of them (an
\* exponent that large is beyond every float either way).
RECURSIVE SmallValue(_, _, _)
SmallValue(d, k, acc) ==
    IF k > Len(d) THEN acc
    ELSE SmallValue(d, k + 1,
            10 * acc + (CHOOSE n \in 0..9 : DigitChars[n + 1] = d[k]))

ExponentValue(d) ==
    LET z == NoLeadingZeros(DigitsOf(d)) IN
    IF Len(z) > 4 THEN 9999 ELSE SmallValue(z, 1, 0)

\* The first digits of 2^1024 - 2^970: a decimal of 309 integer digits that
\* is not below it rounds to infinity.
OverflowDigits == <<"1", "7", "9", "7", "6", "9", "3", "1", "3", "4", "8", "6", "2", "3", "1", "5", "8", "0", "7", "9", "4">>

\* Whether the digits d, taken as a fraction 0.d, are at least 0.b.
FractionAtLeast(d, b) ==
    LET n == IF Len(d) > Len(b) THEN Len(d) ELSE Len(b)
        at(s, k) == IF k <= Len(s) THEN s[k] ELSE "0"
        differ == {k \in 1..n : at(d, k) # at(b, k)}
    IN IF differ = {} THEN TRUE
       ELSE LET k == CHOOSE x \in differ : \A y \in differ : x <= y IN
            \E m, n2 \in 0..9 : DigitChars[m + 1] = at(d, k)
                                /\ DigitChars[n2 + 1] = at(b, k) /\ m > n2

\* The float of the digits ip.fp times 10^exp: above the greatest float it
\* is infinity, below the least one it is zero.
Rounded(neg, ip, fp, exp) ==
    LET all == ip \o fp
        lead == NoLeadingZeros(all)
        tz == TrailingZeros(lead)
        digits == SubSeq(lead, 1, Len(lead) - tz)
        e10 == exp - Len(fp) + tz
        magnitude == Len(digits) + e10
    IN IF digits = <<>> THEN Finite(FALSE, <<>>, 0)
       ELSE IF magnitude > 309 \/ (magnitude = 309 /\ FractionAtLeast(digits, OverflowDigits))
            THEN Infinite(neg)
       ELSE IF magnitude < -323 THEN Finite(FALSE, <<>>, 0)
       ELSE Finite(neg, digits, e10)

\* The mantissa m: digits, a point among them or at one end.
MantissaOk(m) ==
    LET q == FirstOf(m, {"."})
        ip == SubSeq(m, 1, q - 1)
        fp == SubSeq(m, q + 1, Len(m))
    IN IF q > Len(m) THEN IsDigitPart(m)
       ELSE /\ ip = <<>> \/ IsDigitPart(ip)
            /\ fp = <<>> \/ IsDigitPart(fp)
            /\ ~(ip = <<>> /\ fp = <<>>)

\* The exponent x, what follows e or E: a sign and digits.
ExponentOk(x) ==
    /\ x # <<>>
    /\ IsDigitPart(IF x[1] \in {"+", "-"} THEN Tail(x) ELSE x)

\* float(u) for u with no sign and no whitespace around it: the float, or
\* None for a ValueError.
ParseUnsigned(neg, u) ==
    LET low == Lower(u)
        x0 == FirstOf(u, {"e", "E"})
        m == SubSeq(u, 1, x0 - 1)
        x == SubSeq(u, x0 + 1, Len(u))
        q == FirstOf(m, {"."})
        ip == DigitsOf(SubSeq(m, 1, q - 1))
        fp == DigitsOf(SubSeq(m, q + 1, Len(m)))
        xneg == x # <<>> /\ x[1] = "-"
        xval == IF x0 > Len(u) THEN 0
                ELSE IF xneg THEN -ExponentValue(x) ELSE ExponentValue(x)
    IN IF low = <<"i", "n", "f">> \/ low = <<"i", "n", "f", "i", "n", "i", "t", "y">> THEN Some(Infinite(neg))
       ELSE IF low = <<"n", "a", "n">> THEN Some(NaN)
       ELSE IF MantissaOk(m) /\ (x0 > Len(u) \/ ExponentOk(x))
            THEN Some(Rounded(neg, ip, fp, xval))
       ELSE None

\* float(text): whitespace around the number is skipped, then a sign.
ParseStripped(t) ==
    IF t = <<>> THEN None
    ELSE IF t[1] \in {"+", "-"}
         THEN Once(LAMBDA u : ParseUnsigned(t[1] = "-", u), Tail(t))
         ELSE ParseUnsigned(FALSE, t)

ParseFloat(s) == Once(LAMBDA t : ParseStripped(t), Strip(s))

\* ------------------------------------------------------------------------
\* locale_detector.py: clean_amount
\* ------------------------------------------------------------------------
CurrencySymbols == {"€", "$", "£", "¥"}
CurrencyCodes == {<<"e", "u", "r">>, <<"u", "s", "d">>, <<"g", "b", "p">>, <<"c", "h", "f">>}

\* re.sub(r'[€$£¥]', '', text)
RemoveSymbols(s) == SelectSeq(s, LAMBDA c : c \notin CurrencySymbols)

\* re.sub(r'EUR|USD|GBP|CHF', '', text, flags=re.IGNORECASE), from position
\* p on: the occurrences found left to right go, what is left is not
\* searched again.
RECURSIVE RemoveCodesFrom(_, _)
RemoveCodesFrom(s, p) ==
    IF p > Len(s) THEN <<>>
    ELSE IF p + 2 <= Len(s) /\ Lower(SubSeq(s, p, p + 2)) \in CurrencyCodes
         THEN RemoveCodesFrom(s, p + 3)
         ELSE <<s[p]>> \o RemoveCodesFrom(s, p + 1)

RemoveCodes(s) == Once(LAMBDA v : RemoveCodesFrom(v, 1), s)

\* locale_config = LOCALES.get(locale, LOCALES['fr']) unless one is given.
ConfigOf(locale, locale_config) ==
    IF locale_config # None THEN locale_config[1]
    ELSE IF InLocales(locale) THEN LOCALES[locale]
    ELSE LOCALES["fr"]

\* Lines 271-280: the separators of the locale.
LocaleFormat_DecimalFirst(s, config) ==
    IF config.decimal_separator = ","
    THEN Remove(Replace(s, ",", "."), config.thousands_separator)
    ELSE Remove(s, config.thousands_separator)
LocaleFormat(s, config) ==
    IF config.decimal_separator = ","
    THEN Replace(Remove(s, config.thousands_separator), ",", ".")
    ELSE Remove(s, config.thousands_separator)

\* Line 283: text.replace('+', ''), every plus sign goes.
RemovePlus_Leading(s) == SubSeq(s, FirstOf(s, {c \in {s[k] : k \in 1..Len(s)} : c # "+"}), Len(s))
RemovePlus(s) == Remove(s, "+")

\* Lines 261-280: the text before the plus signs go.
SeparatedText(text, config) ==
    LocaleFormat(Remove(RemoveCodes(RemoveSymbols(Strip(text))), " "), config)

\* Lines 261-283: the text float() is given.
CleanText(text, config) == RemovePlus(SeparatedText(text, config))

\* `except ValueError`
CatchesValueError_Not(exc) == FALSE
CatchesValueError(exc) == exc = "ValueError"

\* Lines 285-288: float(text), None on a ValueError.
TryFloat(s) ==
    LET f == ParseFloat(s) IN
    IF f # None THEN [kind |-> "return", value |-> f]
    ELSE IF CatchesValueError("ValueError") THEN [kind |-> "return", value |-> None]
    ELSE [kind |-> "raise", value |-> None]

\* clean_amount(text, locale, locale_config): text None is a missing value.
clean_amount(text, locale, locale_config) ==
    IF text = None \/ text = Some(<<>>) THEN [kind |-> "return", value |-> None]
    ELSE Once(LAMBDA s : TryFloat(s),
              CleanText(text[1], ConfigOf(locale, locale_config)))

\* ------------------------------------------------------------------------
\* locale_detector.py: parse_date
\* ------------------------------------------------------------------------
\* Lines 316-321: the patterns k.. in list order; the first that matches
\* gives its leftmost match.
RECURSIVE FirstMatch_Leftmost(_, _, _)
FirstMatch_Leftmost(patterns, k, t) ==
    LET found == {n \in k..Len(patterns) : Search(patterns[n], t) # None}
        starts == {Search(patterns[n], t)[1][1] : n \in found}
        first == CHOOSE p \in starts : \A q \in starts : p <= q
        n1 == CHOOSE n \in found : /\ Search(patterns[n], t)[1][1] = first
                                   /\ \A j \in found :
                                         Search(patterns[j], t)[1][1] = first => n <= j
    IN IF found = {} THEN None ELSE Some(Group0(t, Search(patterns[n1], t)[1]))

RECURSIVE FirstMatch(_, _, _)
FirstMatch(patterns, k, t) ==
    IF k > Len(patterns) THEN None
    ELSE LET match == Search(patterns[k], t) IN
         IF match # None THEN Some(Group0(t, match[1]))
         ELSE FirstMatch(patterns, k + 1, t)

\* parse_date(text, locale, locale_config): text None is a missing value.
parse_date(text, locale, locale_config) ==
    IF text = None \/ text = Some(<<>>) THEN None
    ELSE Once(LAMBDA t : FirstMatch(ConfigOf(locale, locale_config).date_patterns, 1, t),
              Strip(text[1]))

\* ------------------------------------------------------------------------
\* parsers.py: bank_statement_parser
\* ------------------------------------------------------------------------
\* r'\d{1,2}/\d{1,2}/\d{4}'
RowDatePattern == <<Cls(Digit, 1, 2), Lit("/"), Cls(Digit, 1, 2), Lit("/"), Cls(Digit, 4, 4)>>

\* r'[+-]?\s*\d+[,\s]\d{2}'
RowAmountPattern ==
    <<Cls({"+", "-"}, 0, 1), Cls(Whitespace, 0, -1), Cls(Digit, 1, -1),
      Cls({","} \cup Whitespace, 1, 1), Cls(Digit, 2, 2)>>

\* [str(x) for x in row if pd.notna(x)]: a cell is None (NaN) or a text.
RECURSIVE RowCells(_, _)
RowCells(row, k) ==
    IF k > Len(row) THEN <<>>
    ELSE IF row[k] = None THEN RowCells(row, k + 1)
    ELSE <<row[k][1]>> \o RowCells(row, k + 1)

\* Line 10: row_str
RowStr(row) == Join(<<" ">>, RowCells(row, 1))

\* Line 19: amounts[-1].replace(' ', '').replace(',', '.')
AmountText_First(amounts) == Replace(Remove(amounts[1], " "), ",", ".")
AmountText(amounts) == Replace(Remove(amounts[Len(amounts)], " "), ",", ".")

\* Lines 17-26 for the row string row_str: the row is skipped, or float()
\* raises its ValueError, which nothing here catches, or the row gives a
\* transaction.
RowOutcome(row_str, dates, amounts, source) ==
    IF dates = <<>> \/ amounts = <<>> THEN [kind |-> "skip", tx |-> None]
    ELSE LET f == ParseFloat(AmountText(amounts)) IN
         IF f = None THEN [kind |-> "raise", tx |-> None]
         ELSE [kind |-> "append",
               tx |-> Some([Date |-> dates[1], Description |-> row_str,
                            Amount |-> f[1], Source |-> source])]

\* Lines 10-26: one turn of the loop.
RowStep(row, source) ==
    Once(LAMBDA row_str :
            Once(LAMBDA found : RowOutcome(row_str, found[1], found[2], source),
                 <<FindAll(RowDatePattern, row_str), FindAll(RowAmountPattern, row_str)>>),
         RowStr(row))

\* ------------------------------------------------------------------------
\* The idle values of each entry point's variables
\* ------------------------------------------------------------------------
EIdle ==
    /\ epc = "idle"
    /\ i = 0
    /\ best_result = None
    /\ best_method = "None"
    /\ max_rows = 0
    /\ outcomes = <<>>
    /\ attempted = <<>>
    /\ eret = None

LIdle ==
    /\ lpc = "idle"
    /\ requested_default = "fr"
    /\ default_locale = "unset"
    /\ filename = <<>>
    /\ df = None
    /\ explicit_locale = None
    /\ content_result = None
    /\ consulted = <<>>
    /\ lret = None


AIdle ==
    /\ apc = "idle"
    /\ atext = None
    /\ alocale = "fr"
    /\ aconfig = None
    /\ ashape = None
    /\ aret = None

DIdle ==
    /\ dpc = "idle"
    /\ dtext = None
    /\ dlocale = "fr"
    /\ dconfig = None
    /\ dret = None

PIdle ==
    /\ ppc = "idle"
    /\ psupplied = FALSE
    /\ ptable = <<>>
    /\ pfilename = <<>>
    /\ pidx = 0
    /\ transactions = <<>>
    /\ pret = None
    /\ perror = "none"

RIdle ==
    /\ rpc = "idle"
    /\ registry = <<>>
    /\ detector = <<>>
    /\ constructed = <<>>
    /\ rlog = <<>>
    /\ rtimes = <<>>

EInit ==
    /\ epc = "call"
    /\ i = 0
    /\ best_result = None
    /\ best_method = "None"
    /\ max_rows = 0
    /\ outcomes = <<>>
    /\ attempted = <<>>
    /\ eret = None

\* Lines 23-26: the locals of one call.
ExtractBegin ==
    /\ epc = "call"
    /\ epc' = "loop"
    /\ i' = 1
    /\ best_result' = None
    /\ best_method' = "None"
    /\ max_rows' = 0
    /\ UNCHANGED <<outcomes, attempted, eret, notE>>

\* Lines 28-44: one iteration of `for method in methods`.
Attempt ==
    /\ epc = "loop"
    /\ i <= Len(methods)
    /\ \E out \in EngineOutcomes(methods[i]) :
         LET st == TryMethod(methods[i], out,
                     [best_result |-> best_result, best_method |-> best_method,
                      max_rows |-> max_rows, propagated |-> FALSE])
         IN /\ outcomes' = Append(outcomes, out)
            /\ attempted' = Append(attempted, methods[i])
            /\ best_result' = st.best_result
            /\ best_method' = st.best_method
            /\ max_rows' = st.max_rows
            /\ epc' = IF st.propagated THEN "raised" ELSE "loop"
            /\ i' = i + 1
    /\ UNCHANGED <<eret, notE>>

\* Line 46: return best_result, best_method.
ExtractReturn ==
    /\ epc = "loop"
    /\ i > Len(methods)
    /\ epc' = "returned"
    /\ eret' = Some(<<best_result, best_method>>)
    /\ UNCHANGED <<i, best_result, best_method, max_rows, outcomes, attempted, notE>>

ENext == ExtractBegin \/ Attempt \/ ExtractReturn

InitExtract == EInit /\ LIdle /\ AIdle /\ DIdle /\ PIdle /\ RIdle

SpecExtract == InitExtract /\ [][ENext]_vars

\* ------------------------------------------------------------------------
\* LocaleDetector(default_locale).detect_locale(filename, df, explicit_locale)
\* ------------------------------------------------------------------------
\* Cells a table holds at most.
MaxCells == 3

Filenames ==
    {<<"r", "e", "l", "e", "v", "e", ".", "p", "d", "f">>, <<"b", "a", "n", "k", "_", "d", "e", ".", "p", "d", "f">>, <<"S", "t", "a", "t", "e", "m", "e", "n", "t", "_", "F", "R", "_", "d", "e", ".", "p", "d", "f">>,
     <<"a", "u", "g", "u", "s", "t", ".", "p", "d", "f">>, <<"F", "R", "A", "N", "C", "E", "-", "e", "n", ".", "p", "d", "f">>}

ExplicitChoices == {None, Some(""), Some("de"), Some("xx")}

DefaultChoices == {"en", "xx"}

\* The texts of the cells the tables are made of, and NaN.
CellVocabulary ==
    <<Some(<<"D", "a", "t", "e", " ", "D", "é", "b", "i", "t", " ", "C", "r", "é", "d", "i", "t", " ", "S", "o", "l", "d", "e">>),
      Some(<<"M", "a", "r", "s", " ", "M", "a", "i", " ", "J", "u", "i", "n">>),
      Some(<<"D", "e", "b", "i", "t", " ", "C", "r", "e", "d", "i", "t", " ", "M", "a", "r", "c", "h", " ", "M", "a", "y", " ", "J", "u", "n", "e", " ", "J", "u", "l", "y">>),
      Some(<<"D", "a", "t", "u", "m", " ", "S", "a", "l", "d", "o", " ", "K", "r", "e", "d", "i", "t", " ", "M", "ä", "r", "z">>),
      Some(<<"J", "u", "n", "i", " ", "J", "u", "l", "i", " ", "A", "p", "r", "i", "l">>),
      Some(<<"A", "u", "g", "u", "s", "t">>),
      None>>

\* The cells of a table: up to MaxCells of the vocabulary, in its order.
CellChoices ==
    UNION {{[k \in 1..n |-> CellVocabulary[c[k]]] :
              c \in {f \in [1..n -> 1..Len(CellVocabulary)] :
                       \A a, b \in 1..n : a < b => f[a] < f[b]}} :
           n \in 0..MaxCells}

\* No table, a table without rows, a table of one row, and the first two
\* cells of the vocabulary as one column.
DataFrames ==
    {None, Some(<<>>), Some(<<<<CellVocabulary[1]>>, <<CellVocabulary[2]>>>>)}
    \cup {Some(<<cells>>) : cells \in CellChoices}

LInit ==
    /\ lpc = "new"
    /\ requested_default \in DefaultChoices
    /\ default_locale = "unset"
    /\ filename \in Filenames
    /\ df \in DataFrames
    /\ explicit_locale \in ExplicitChoices
    /\ content_result = None
    /\ consulted = <<>>
    /\ lret = None

\* __init__ (lines 112-116): an unknown default locale raises ValueError.
Construct ==
    /\ lpc = "new"
    /\ IF InLocales(requested_default)
       THEN default_locale' = requested_default /\ lpc' = "explicit"
       ELSE default_locale' = default_locale /\ lpc' = "ctor_raised"
    /\ UNCHANGED <<requested_default, filename, df, explicit_locale,
                   content_result, consulted, lret, notL>>

\* The return of detect_locale with the result r of a step, or the move on
\* to the step next when r is None.
ReturnOrGoOn(r, next) ==
    /\ lret' = r
    /\ lpc' = IF r # None THEN "returned" ELSE next

\* detect_locale, 1. Explicit locale.
DetectExplicit ==
    /\ lpc = "explicit"
    /\ ReturnOrGoOn(ExplicitStep(explicit_locale), "filename")
    /\ consulted' = Append(consulted, "explicit")
    /\ UNCHANGED <<requested_default, default_locale, filename, df,
                   explicit_locale, content_result, notL>>

\* detect_locale, 2. Filename pattern.
DetectFilename ==
    /\ lpc = "filename"
    /\ ReturnOrGoOn(FilenameStep(filename), "content")
    /\ consulted' = Append(consulted, "filename")
    /\ UNCHANGED <<requested_default, default_locale, filename, df,
                   explicit_locale, content_result, notL>>

\* detect_locale, 3. Content analysis: only with a table.
DetectContent ==
    /\ lpc = "content"
    /\ IF df # None
       THEN LET r == detect_from_content(df) IN
            /\ content_result' = Some(r)
            /\ ReturnOrGoOn(ContentStep(r), "default")
            /\ consulted' = Append(consulted, "content")
       ELSE /\ lpc' = "default"
            /\ UNCHANGED <<content_result, consulted, lret>>
    /\ UNCHANGED <<requested_default, default_locale, filename, df,
                   explicit_locale, notL>>

\* detect_locale, 4. Default.
DetectDefault ==
    /\ lpc = "default"
    /\ ReturnOrGoOn(DefaultStep(default_locale), "returned")
    /\ consulted' = Append(consulted, "default")
    /\ UNCHANGED <<requested_default, default_locale, filename, df,
                   explicit_locale, content_result, notL>>

LNext == Construct \/ DetectExplicit \/ DetectFilename \/ DetectContent \/ DetectDefault

InitLocale == LInit /\ EIdle /\ AIdle /\ DIdle /\ PIdle /\ RIdle

SpecLocale == InitLocale /\ [][LNext]_vars

\* ------------------------------------------------------------------------
\* SpecAmount: one call of clean_amount
\* ------------------------------------------------------------------------
MaxAmountTokens == 3

\* The text of a call is a few of these, one after the other.
AmountTokens ==
    {<<"1">>, <<"2", "3", "4">>, <<"5", "6">>, <<",">>, <<".">>, <<" ">>, <<"+">>, <<"-">>, <<"€">>, <<"E", "U", "R">>,
     <<"e">>, <<"a", "b", "c">>, <<"\t">>}

RECURSIVE TokenTexts(_)
TokenTexts(n) ==
    IF n = 0 THEN {<<>>}
    ELSE LET shorter == TokenTexts(n - 1) IN
         shorter \cup {t \o tok : t \in {x \in shorter : Len(x) >= n - 1}, tok \in AmountTokens}

\* How the locale reaches the call: its code, a code the registry does not
\* have, or a config.
AnyCalls ==
    {<<"fr", None>>, <<"en", None>>, <<"xx", None>>, <<"fr", Some(LOCALES["de"])>>}
CallsOf(code) == {<<code, None>>, <<"fr", Some(LOCALES[code])>>}

\* An amount written in the convention of a locale: a sign, a first group of
\* digits, groups of three digits, two decimals, a currency.
Signs == {<<>>, <<"-">>, <<"+">>}
FirstGroups == {<<"1">>, <<"1", "2">>, <<"0">>}
MoreGroups == {<<>>, <<<<"2", "3", "4">>>>, <<<<"2", "3", "4">>, <<"0", "0", "0">>>>}
Decimals == {<<"5", "6">>, <<"5", "0">>}
Currencies == {"none", "symbol before", "symbol after", "code before", "code after"}

AmountShapes ==
    [locale : {"fr", "de", "en"}, sign : Signs, first : FirstGroups,
     groups : MoreGroups, decimals : Decimals, currency : Currencies]

RECURSIVE Grouped(_, _, _)
Grouped(groups, k, sep) ==
    IF k > Len(groups) THEN <<>>
    ELSE <<sep>> \o groups[k] \o Grouped(groups, k + 1, sep)

Written(shape) ==
    LET config == LOCALES[shape.locale]
        number == shape.sign \o shape.first
                  \o Grouped(shape.groups, 1, config.thousands_separator)
                  \o <<config.decimal_separator>> \o shape.decimals
    IN CASE shape.currency = "none" -> number
         [] shape.currency = "symbol before" -> <<"€">> \o number
         [] shape.currency = "symbol after" -> number \o <<" ", "$">>
         [] shape.currency = "code before" -> <<"E", "U", "R", " ">> \o number
         [] shape.currency = "code after" -> number \o <<" ", "c", "h", "f">>

AInit ==
    /\ apc = "called"
    /\ aret = None
    /\ \/ /\ ashape = None
          /\ atext \in {None} \cup {Some(t) : t \in TokenTexts(MaxAmountTokens)}
          /\ \E call \in AnyCalls : alocale = call[1] /\ aconfig = call[2]
       \/ \E shape \in AmountShapes :
             /\ ashape = Some(shape)
             /\ atext = Some(Written(shape))
             /\ \E call \in CallsOf(shape.locale) : alocale = call[1] /\ aconfig = call[2]

\* clean_amount(text, locale, locale_config)
CleanAmount ==
    /\ apc = "called"
    /\ LET r == clean_amount(atext, alocale, aconfig) IN
       /\ apc' = IF r.kind = "raise" THEN "raised" ELSE "returned"
       /\ aret' = r.value
    /\ UNCHANGED <<atext, alocale, aconfig, ashape, notA>>

ANext == CleanAmount

InitAmount == AInit /\ EIdle /\ LIdle /\ DIdle /\ PIdle /\ RIdle

SpecAmount == InitAmount /\ [][ANext]_vars

\* ------------------------------------------------------------------------
\* SpecDate: one call of parse_date
\* ------------------------------------------------------------------------
MaxDateTokens == 2

\* The text of a call is a few of these, one after the other.
DateTokens ==
    {<<"1", "5", "/", "0", "1", "/", "2", "0", "2", "4">>, <<"3", "1", ".", "0", "4", ".", "2", "0", "2", "4", " ">>, <<"2", "0", "2", "4", "-", "1", "-", "5">>, <<"1", "5", " ", "m", "a", "r", "s", " ", "2", "0", "2", "4">>,
     <<"1", "5", " ", "M", "ä", "r", "z", " ", "2", "0", "2", "4">>, <<"1", "5", " ", "M", "a", "r", "c", "h", " ", "2", "0", "2", "4">>, <<"P", "a", "i", "d", " ", "o", "n", " ", "1", "5", "/", "0", "1", "/", "2", "0", "2", "4", " ", "t", "h", "a", "n", "k", "s">>,
     <<"n", "o", " ", "d", "a", "t", "e", " ", "h", "e", "r", "e">>, <<" ">>, <<"1", "/", "2", "/">>, <<"x">>}

RECURSIVE DateTexts(_)
DateTexts(n) ==
    IF n = 0 THEN {<<>>}
    ELSE LET shorter == DateTexts(n - 1) IN
         shorter \cup {t \o tok : t \in shorter, tok \in DateTokens}

DateCalls ==
    {<<"fr", None>>, <<"en", None>>, <<"xx", None>>, <<"fr", Some(LOCALES["de"])>>}

DInit ==
    /\ dpc = "called"
    /\ dret = None
    /\ dtext \in {None} \cup {Some(t) : t \in DateTexts(MaxDateTokens)}
    /\ \E call \in DateCalls : dlocale = call[1] /\ dconfig = call[2]

\* parse_date(text, locale, locale_config)
ParseDate ==
    /\ dpc = "called"
    /\ dpc' = "returned"
    /\ dret' = parse_date(dtext, dlocale, dconfig)
    /\ UNCHANGED <<dtext, dlocale, dconfig, notD>>

DNext == ParseDate

InitDate == DInit /\ EIdle /\ LIdle /\ AIdle /\ PIdle /\ RIdle

SpecDate == InitDate /\ [][DNext]_vars

\* ------------------------------------------------------------------------
\* SpecParser: one call of bank_statement_parser
\* ------------------------------------------------------------------------
MaxTableRows == 2

\* The rows a table is made of: four cells each, NaN where a cell is empty.
RowVocabulary ==
    <<<<Some(<<"1", "5", "/", "0", "1", "/", "2", "0", "2", "4">>), Some(<<"G", "r", "o", "c", "e", "r", "y", " ", "S", "t", "o", "r", "e">>), Some(<<"4", "5", ",", "5", "0">>), Some(<<"2", "3", "0", "0", ",", "1", "7">>)>>,
      <<Some(<<"1", "5", "/", "0", "1", "/", "2", "0", "2", "4">>), Some(<<"4", "5", ",", "5", "0">>), None, None>>,
      <<Some(<<"T", "o", "t", "a", "l">>), None, None, Some(<<"1", "0", "0", ",", "0", "0">>)>>,
      <<Some(<<"1", "6", "/", "0", "1", "/", "2", "0", "2", "4">>), Some(<<"C", "a", "r", "d">>), None, None>>,
      <<Some(<<"1", "7", "/", "0", "1", "/", "2", "0", "2", "4">>), Some(<<"R", "e", "f", " ", "1", "2">> \o <<"\t">> \o <<"3", "4">>), None, None>>,
      <<Some(<<"1", "8", "/", "0", "1", "/", "2", "0", "2", "4", " ", "1", "9", "/", "0", "1", "/", "2", "0", "2", "4">>), None, Some(<<"-", " ", "5", ",", "0", "0">>), Some(<<"+", "1", " ", "0", "0", "0", ",", "0", "0">>)>>,
      <<Some(<<"2", "0", "/", "0", "1", "/", "2", "0", "2", "4">>), Some(<<"F", "e", "e">>), Some(<<"-">> \o <<"\r">> \o <<"5", ",", "0", "0">>), None>>>>

RECURSIVE Tables(_)
Tables(n) ==
    IF n = 0 THEN {<<>>}
    ELSE LET shorter == Tables(n - 1) IN
         shorter \cup {Append(t, RowVocabulary[r]) : t \in shorter, r \in 1..Len(RowVocabulary)}

SourceNames == {<<"s", "t", "m", "t", "_", "a">>, <<"s", "t", "m", "t", "_", "b">>}

\* df is a table, or None when the caller has no table (psupplied FALSE).
PInit ==
    /\ ppc = "loop"
    /\ \/ psupplied = TRUE /\ ptable \in Tables(MaxTableRows)
       \/ psupplied = FALSE /\ ptable = <<>>
    /\ pfilename \in SourceNames
    /\ pidx = 1
    /\ transactions = <<>>
    /\ pret = None
    /\ perror = "none"

\* Line 9 with df None: None has no iterrows, an AttributeError.
NoTable ==
    /\ ppc = "loop"
    /\ ~psupplied
    /\ ppc' = "raised"
    /\ perror' = "AttributeError"
    /\ UNCHANGED <<psupplied, ptable, pfilename, pidx, transactions, pret, notP>>

\* Lines 9-26: the row at pidx.
ScanRow ==
    /\ ppc = "loop"
    /\ psupplied
    /\ pidx <= Len(ptable)
    /\ LET step == RowStep(ptable[pidx], pfilename) IN
       /\ ppc' = IF step.kind = "raise" THEN "raised" ELSE "loop"
       /\ perror' = IF step.kind = "raise" THEN "ValueError" ELSE perror
       /\ pidx' = IF step.kind = "raise" THEN pidx ELSE pidx + 1
       /\ transactions' = IF step.kind = "append"
                          THEN Append(transactions, step.tx[1])
                          ELSE transactions
    /\ UNCHANGED <<psupplied, ptable, pfilename, pret, notP>>

\* Lines 28-30: the DataFrame of the transactions, None when there is none.
ParserReturn ==
    /\ ppc = "loop"
    /\ psupplied
    /\ pidx > Len(ptable)
    /\ ppc' = "returned"
    /\ pret' = IF transactions # <<>> THEN Some(transactions) ELSE None
    /\ UNCHANGED <<psupplied, ptable, pfilename, pidx, transactions, perror, notP>>

PNext == NoTable \/ ScanRow \/ ParserReturn

InitParser == PInit /\ EIdle /\ LIdle /\ AIdle /\ DIdle /\ RIdle

SpecParser == InitParser /\ [][PNext]_vars

\* ------------------------------------------------------------------------
\* SpecRerun: a series of calls on one detector and one registry
\* ------------------------------------------------------------------------
\* Calls a series has at most.
MaxCalls == 3

GermanTable == Some(<<<<CellVocabulary[4], CellVocabulary[5]>>>>)

\* The calls of detect_locale, as <<filename, df, explicit_locale>>.
LocaleCalls ==
    [dl_default |-> <<<<"r", "e", "l", "e", "v", "e", ".", "p", "d", "f">>, None, None>>,
     dl_filename |-> <<<<"b", "a", "n", "k", "_", "d", "e", ".", "p", "d", "f">>, None, Some("xx")>>,
     dl_content |-> <<<<"r", "e", "l", "e", "v", "e", ".", "p", "d", "f">>, GermanTable, None>>]

\* The calls of detect_from_content, as <<df>>.
ContentCalls ==
    [dfc_german |-> <<GermanTable>>,
     dfc_empty |-> <<Some(<<>>)>>]

\* The calls of clean_amount and of parse_date, as <<text, locale>>.
RerunAmountCalls ==
    [ca_french |-> <<Some(<<"1", " ", "2", "3", "4", ",", "5", "6">>), "fr">>,
     ca_text |-> <<Some(<<"a", "b", "c">>), "en">>]
RerunDateCalls ==
    [pd_french |-> <<Some(<<"P", "a", "i", "d", " ", "o", "n", " ", "1", "5", "/", "0", "1", "/", "2", "0", "2", "4", " ", "t", "h", "a", "n", "k", "s">>), "fr">>,
     pd_german |-> <<Some(<<"3", "1", ".", "0", "4", ".", "2", "0", "2", "4", " ", "1", "5", "/", "0", "1", "/", "2", "0", "2", "4">>), "de">>]

CallNames ==
    DOMAIN LocaleCalls \cup DOMAIN ContentCalls \cup DOMAIN RerunAmountCalls \cup DOMAIN RerunDateCalls

RECURSIVE SumOver(_, _)
SumOver(f, names) ==
    IF names = {} THEN 0
    ELSE LET n == CHOOSE x \in names : TRUE IN f[n] + SumOver(f, names \ {n})

\* The detector is constructed (lines 112-116) with a default locale of
\* the registry; nothing has been called.
RInit ==
    /\ rpc = "ready"
    /\ registry = LOCALES
    /\ \E default \in {"fr", "en"} :
          /\ detector = [default_locale |-> default,
                         confidence_threshold |-> <<ThresholdNum, ThresholdDen>>]
          /\ constructed = detector
    /\ rlog = [n \in CallNames |-> {}]
    /\ rtimes = [n \in CallNames |-> 0]

\* The call named n has returned result: the log has the result, and the
\* detector and the registry are what the call leaves.
Called(n, result, default) ==
    /\ rlog' = [rlog EXCEPT ![n] = @ \cup {result}]
    /\ rtimes' = [rtimes EXCEPT ![n] = @ + 1]
    /\ detector' = [detector EXCEPT !.default_locale = default]

CanCall == rpc = "ready" /\ SumOver(rtimes, CallNames) < MaxCalls

CallDetectLocale ==
    /\ CanCall
    /\ \E n \in DOMAIN LocaleCalls :
          LET c == LocaleCalls[n]
              result == detect_locale(detector.default_locale, c[1], c[2], c[3])
          IN Called(n, result, DefaultAfter(detector.default_locale, result))
    /\ UNCHANGED <<rpc, registry, constructed, notR>>

CallDetectFromContent ==
    /\ CanCall
    /\ \E n \in DOMAIN ContentCalls :
          Called(n, detect_from_content(ContentCalls[n][1]), detector.default_locale)
    /\ UNCHANGED <<rpc, registry, constructed, notR>>

CallCleanAmount ==
    /\ CanCall
    /\ \E n \in DOMAIN RerunAmountCalls :
          Called(n, clean_amount(RerunAmountCalls[n][1], RerunAmountCalls[n][2], None).value,
                 detector.default_locale)
    /\ UNCHANGED <<rpc, registry, constructed, notR>>

CallParseDate ==
    /\ CanCall
    /\ \E n \in DOMAIN RerunDateCalls :
          Called(n, parse_date(RerunDateCalls[n][1], RerunDateCalls[n][2], None),
                 detector.default_locale)
    /\ UNCHANGED <<rpc, registry, constructed, notR>>

RNext == CallDetectLocale \/ CallDetectFromContent \/ CallCleanAmount \/ CallParseDate

InitRerun == RInit /\ EIdle /\ LIdle /\ AIdle /\ DIdle /\ PIdle

SpecRerun == InitRerun /\ [][RNext]_vars

\* ------------------------------------------------------------------------
\* Properties of extract_tables
\* ------------------------------------------------------------------------
\* The rows one attempt produced: the rows of its tables, none when it raised.
RowsOf(out) ==
    IF out.kind = "raise" THEN 0
    ELSE SeqSum([t \in 1..Len(out.tables) |-> Len(out.tables[t])])

ReturnedTable(out) == [k \in 1..RowsOf(out) |-> Concat(out.tables)[k]]

\* The earliest attempt among the indices S whose row count is the greatest.
EarliestGreatest(S) ==
    CHOOSE k \in S :
        /\ \A j \in S : RowsOf(outcomes[j]) <= RowsOf(outcomes[k])
        /\ \A j \in S : j < k => RowsOf(outcomes[j]) < RowsOf(outcomes[k])

AllModes == 1..Len(methods)
Returned == epc = "returned"
ProducedTables(k) == outcomes[k].kind = "tables" /\ outcomes[k].tables # <<>>
Raised(k) == outcomes[k].kind = "raise"
NotRaised == {k \in AllModes : ~Raised(k)}

\* C1 as stated: whatever row counts the three attempts produce, the result is
\* the table and the method of the earliest attempt with the greatest row count.
C1_AsStated ==
    (Returned /\ \A k \in AllModes : ProducedTables(k)) =>
        LET b == EarliestGreatest(AllModes) IN
        eret = Some(<<Some(ReturnedTable(outcomes[b])), methods[b]>>)

\* C1 amended: when the greatest row count of the three attempts is at least
\* one, extract_tables returns the table and the method of the attempt with the
\* greatest row count, the earliest of them in the order lattice, stream, guess
\* on a tie (an attempt that raised or returned no table counts as zero rows).
C1_GreatestRowCountWins ==
    (Returned /\ \E k \in AllModes : RowsOf(outcomes[k]) >= 1) =>
        LET b == EarliestGreatest(AllModes) IN
        eret = Some(<<Some(ReturnedTable(outcomes[b])), methods[b]>>)

\* A tie at the greatest row count between stream and guess, lattice below it.
C1_Witness ==
    /\ Returned
    /\ RowsOf(outcomes[1]) = 1
    /\ RowsOf(outcomes[2]) = 2
    /\ RowsOf(outcomes[3]) = 2
    /\ Len(outcomes[2].tables) = 2
    /\ eret[1][2] = "stream"

\* C2: an error raised by the engine for any subset of the modes is never
\* propagated; the three modes are attempted once each in the order lattice,
\* stream, guess; and the result is the best attempt among the modes that did
\* not raise (nothing when none of them produced a row).
C2_ErrorsAreSkipped ==
    /\ epc # "raised"
    /\ attempted = SubSeq(methods, 1, Len(attempted))
    /\ Returned =>
        /\ attempted = methods
        /\ IF \E k \in NotRaised : RowsOf(outcomes[k]) >= 1
           THEN LET b == EarliestGreatest(NotRaised) IN
                eret = Some(<<Some(ReturnedTable(outcomes[b])), methods[b]>>)
           ELSE eret = Some(<<None, "None">>)

\* Lattice and guess raise, stream yields rows and is returned.
C2_Witness ==
    /\ Returned
    /\ Raised(1) /\ Raised(3)
    /\ RowsOf(outcomes[2]) = 2
    /\ eret[1][2] = "stream"

\* C3: when every mode raises or produces an empty result (no table, or tables
\* with no row in total), extract_tables raises nothing and returns
\* (None, None).
C3_AllEmptyReturnsNone ==
    (\A k \in 1..Len(outcomes) : RowsOf(outcomes[k]) = 0) =>
        /\ epc # "raised"
        /\ Returned => eret = Some(<<None, "None">>)

\* One mode raises, one returns no table, one returns a table without rows.
C3_Witness ==
    /\ Returned
    /\ Raised(1)
    /\ outcomes[2].kind = "tables" /\ outcomes[2].tables = <<>>
    /\ outcomes[3].kind = "tables" /\ Len(outcomes[3].tables) = 1
    /\ RowsOf(outcomes[3]) = 0
    /\ eret = Some(<<None, "None">>)

\* ------------------------------------------------------------------------
\* Properties of LocaleDetector
\* ------------------------------------------------------------------------
LReturned == lpc = "returned"
RegistryCodes == {"fr", "de", "en"}
ValidExplicit == explicit_locale # None /\ explicit_locale[1] \in RegistryCodes

\* The filename, lower-cased, holds one of the indicators of the locale.
IndicatedBy(code) ==
    \E k \in 1..Len(lang_indicators[code]) :
        Contains(lang_indicators[code][k], Lower(filename))

\* The first locale of the registry the filename indicates.
IsFilenameLocale(code) ==
    \E k \in 1..Len(LocaleCodes) :
        /\ LocaleCodes[k] = code
        /\ IndicatedBy(code)
        /\ \A j \in 1..(k - 1) : ~IndicatedBy(LocaleCodes[j])

ContentSucceeded == content_result # None /\ content_result[1].locale # None

\* C4: detect_locale returns the outcome of the first step that succeeds in
\* the order explicit, filename, content, default: an explicit locale of the
\* registry whatever the filename and the table hold; with no explicit locale
\* or one that is not in the registry, the locale the filename indicates
\* whatever the table holds; the content is consulted only when both failed,
\* and the default is returned only when all three failed.
C4_PriorityOrder ==
    LReturned =>
        IF ValidExplicit
        THEN /\ lret = Some(<<explicit_locale[1], <<"e", "x", "p", "l", "i", "c", "i", "t">>>>)
             /\ consulted = <<"explicit">>
        ELSE IF \E code \in RegistryCodes : IndicatedBy(code)
        THEN /\ IsFilenameLocale(lret[1][1])
             /\ lret[1][2] = <<"f", "i", "l", "e", "n", "a", "m", "e">>
             /\ consulted = <<"explicit", "filename">>
        ELSE IF df # None /\ ContentSucceeded
        THEN /\ lret[1][1] = content_result[1].locale[1]
             /\ HasAt(lret[1][2], 1, <<"c", "o", "n", "t", "e", "n", "t">>)
             /\ consulted = <<"explicit", "filename", "content">>
        ELSE /\ lret = Some(<<default_locale, <<"d", "e", "f", "a", "u", "l", "t">>>>)
             /\ consulted[Len(consulted)] = "default"
             /\ content_result # None <=> df # None

\* An explicit locale that is not in the registry, a filename with `_de` and a
\* table whose keywords are French: the filename decides.
C4_Witness ==
    /\ LReturned
    /\ explicit_locale = Some("xx")
    /\ filename = <<"b", "a", "n", "k", "_", "d", "e", ".", "p", "d", "f">>
    /\ df = Some(<<<<CellVocabulary[1], CellVocabulary[2]>>>>)
    /\ detect_from_content(df).locale = Some("fr")
    /\ lret = Some(<<"de", <<"f", "i", "l", "e", "n", "a", "m", "e">>>>)

\* The value of the decimal digits s[k..], after the value acc of those before.
RECURSIVE DigitsValue(_, _, _)
DigitsValue(s, k, acc) ==
    IF k > Len(s) THEN acc
    ELSE DigitsValue(s, k + 1,
            10 * acc + (CHOOSE d \in 0..9 : DigitChars[d + 1] = s[k]))

\* The text m is `content (confidence: P%)` where P, digits with two decimals,
\* is the confidence as a percentage, rounded to the nearest hundredth.
IsContentMethod(m, confidence) ==
    LET prefix == <<"c", "o", "n", "t", "e", "n", "t", " ", "(", "c", "o", "n", "f", "i", "d", "e", "n", "c", "e", ":", " ">>
        p == SubSeq(m, Len(prefix) + 1, Len(m) - 2)
        whole == SubSeq(p, 1, Len(p) - 3)
        h == 100 * DigitsValue(whole, 1, 0) + DigitsValue(p, Len(p) - 1, 0)
        diff == h * confidence[2] - 10000 * confidence[1]
    IN /\ HasAt(m, 1, prefix)
       /\ SubSeq(m, Len(m) - 1, Len(m)) = <<"%", ")">>
       /\ Len(p) >= 4
       /\ p[Len(p) - 2] = "."
       /\ \A k \in 1..Len(p) : k # Len(p) - 2 => p[k] \in Digit
       /\ 2 * diff <= confidence[2] /\ -2 * diff <= confidence[2]

\* C5 as stated: the method is one of explicit, filename, content, default.
C5_AsStated ==
    LReturned =>
        lret[1][2] \in {<<"e", "x", "p", "l", "i", "c", "i", "t">>, <<"f", "i", "l", "e", "n", "a", "m", "e">>, <<"c", "o", "n", "t", "e", "n", "t">>, <<"d", "e", "f", "a", "u", "l", "t">>}

\* C5 amended: the method detect_locale returns is one of explicit, filename
\* and default, or, for a detection made from the content of the table, the
\* text `content (confidence: P%)` with P the confidence as a percentage with
\* two decimals.
C5_MethodValues ==
    LReturned =>
        IF Len(consulted) = 3 /\ consulted[3] = "content"
        THEN IsContentMethod(lret[1][2], content_result[1].confidence)
        ELSE lret[1][2] \in {<<"e", "x", "p", "l", "i", "c", "i", "t">>, <<"f", "i", "l", "e", "n", "a", "m", "e">>, <<"d", "e", "f", "a", "u", "l", "t">>}

\* A detection from the content with the confidence 7/22.
C5_Witness ==
    /\ LReturned
    /\ consulted = <<"explicit", "filename", "content">>
    /\ content_result[1].confidence = <<7, 22>>
    /\ lret[1][2] = <<"c", "o", "n", "t", "e", "n", "t", " ", "(", "c", "o", "n", "f", "i", "d", "e", "n", "c", "e", ":", " ", "3", "1", ".", "8", "2", "%", ")">>

\* The keywords of the locale that occur in the text, over their number.
KeywordFraction(code, text) ==
    <<Cardinality({k \in 1..Len(LOCALES[code].keywords) :
                     Contains(LOCALES[code].keywords[k], text)}),
      Len(LOCALES[code].keywords)>>

\* What C6 says of the result r, given the fractions s of the locales.
ContentClaim(s, r) ==
    IF \E j \in 1..Len(s) : 10 * s[j][1] >= 3 * s[j][2]
    THEN /\ r.locale # None
         /\ \E b \in 1..Len(s) :
              /\ LocaleCodes[b] = r.locale[1]
              /\ \A j \in 1..Len(s) : s[b][1] * s[j][2] >= s[j][1] * s[b][2]
              /\ r.confidence[1] * s[b][2] = s[b][1] * r.confidence[2]
         /\ r.confidence[1] >= 0 /\ r.confidence[1] <= r.confidence[2]
    ELSE r.locale = None

\* C6: detect_from_content scores each locale by the fraction of its keywords
\* that occur in the lower-cased joined text of the cells; when the greatest
\* score is at least 0.3 it returns a locale with the greatest score and that
\* score, a value in [0, 1], as the confidence; when every score is below 0.3
\* it returns no locale.
C6_ContentScore ==
    content_result # None =>
        Once(LAMBDA text :
                Once(LAMBDA s : ContentClaim(s, content_result[1]),
                     <<KeywordFraction("fr", text), KeywordFraction("de", text),
                       KeywordFraction("en", text)>>),
             ContentText(df[1]))

\* German keywords reach 7 of 21, the others stay below the threshold.
C6_Witness ==
    /\ content_result # None
    /\ df = Some(<<<<CellVocabulary[4], CellVocabulary[5]>>>>)
    /\ content_result[1] = [locale |-> Some("de"), confidence |-> <<7, 21>>]

\* French and English keywords both reach 7 of 22: the first locale is returned.
C6_TieWitness ==
    /\ content_result # None
    /\ df = Some(<<<<CellVocabulary[1], CellVocabulary[2], CellVocabulary[3]>>>>)
    /\ content_result[1] = [locale |-> Some("fr"), confidence |-> <<7, 22>>]

\* C16: the locale code a constructed detector's detect_locale returns is
\* a key of the registry; the constructor raises exactly for a default
\* locale that is not one, and then nothing is detected.
C16_ReturnsRegistryCode ==
    /\ LReturned => (lret # None /\ lret[1][1] \in RegistryCodes)
    /\ lpc # "new" => (lpc = "ctor_raised" <=> requested_default \notin RegistryCodes)
    /\ lpc \notin {"new", "ctor_raised"} => default_locale \in RegistryCodes
    /\ lpc = "ctor_raised" => (lret = None /\ consulted = <<>>)

C16_Witness ==
    /\ LReturned
    /\ requested_default = "en"
    /\ explicit_locale = Some("xx")
    /\ filename = <<"r", "e", "l", "e", "v", "e", ".", "p", "d", "f">>
    /\ df = None
    /\ lret = Some(<<"en", <<"d", "e", "f", "a", "u", "l", "t">>>>)

\* A default locale the registry does not have: the constructor raises.
C16_RejectedWitness == lpc = "ctor_raised" /\ requested_default = "xx"

\* ------------------------------------------------------------------------
\* Properties of clean_amount
\* ------------------------------------------------------------------------
AReturned == apc = "returned"

\* The number a shape writes: its digits, the last two after the point.
RECURSIVE Flat(_, _)
Flat(groups, k) == IF k > Len(groups) THEN <<>> ELSE groups[k] \o Flat(groups, k + 1)

AmountOf(shape) ==
    Rounded(shape.sign = <<"-">>, shape.first \o Flat(shape.groups, 1), shape.decimals, 0)

AmountIs(text, code, value) ==
    (AReturned /\ atext = Some(text) /\ ConfigOf(alocale, aconfig).code = code)
        => aret = Some(value)

A1234_56 == Finite(FALSE, <<"1", "2", "3", "4", "5", "6">>, -2)

\* C7: an amount written in the convention of a registry locale, with or
\* without a currency symbol or code, comes out of clean_amount under that
\* locale's config as the number it writes; "1 234,56" (fr), "1.234,56"
\* (de) and "1,234.56" (en) are all 1234.56.
C7_LocaleConventions ==
    /\ (AReturned /\ ashape # None) => aret = Some(AmountOf(ashape[1]))
    /\ AmountIs(<<"1", " ", "2", "3", "4", ",", "5", "6">>, "fr", A1234_56)
    /\ AmountIs(<<"1", ".", "2", "3", "4", ",", "5", "6">>, "de", A1234_56)
    /\ AmountIs(<<"1", ",", "2", "3", "4", ".", "5", "6">>, "en", A1234_56)

C7_Witness ==
    /\ AReturned
    /\ atext = Some(<<"-", "1", "2", ".", "2", "3", "4", ".", "0", "0", "0", ",", "5", "0", " ", "c", "h", "f">>)
    /\ aconfig = Some(LOCALES["de"])
    /\ aret = Some(Finite(TRUE, <<"1", "2", "2", "3", "4", "0", "0", "0", "5">>, -1))

\* Whether the text has nothing float() could read as a number.
NoNumber(text) ==
    /\ \A k \in 1..Len(text) : text[k] \notin Digit
    /\ ~Contains(Lower(text), <<"i", "n", "f">>)
    /\ ~Contains(Lower(text), <<"n", "a", "n">>)

IsFloat(f) == f.kind \in {"finite", "inf", "nan"}

\* C8: clean_amount never raises; it returns a number or null, and null
\* for a missing or empty text and for text with no number in it.
C8_NeverRaises ==
    /\ apc # "raised"
    /\ AReturned => aret = None \/ IsFloat(aret[1])
    /\ (AReturned /\ (atext = None \/ atext = Some(<<>>))) => aret = None
    /\ (AReturned /\ atext # None /\ NoNumber(atext[1])) => aret = None

C8_Witness ==
    /\ AReturned
    /\ atext = Some(<<"a", "b", "c">>)
    /\ aret = None

\* The result clean_amount would have if only the plus signs the cleaned
\* text starts with were stripped.
LeadingOnlyResult ==
    Once(LAMBDA s : TryFloat(s).value,
         RemovePlus_Leading(SeparatedText(atext[1], ConfigOf(alocale, aconfig))))

HasText == atext # None /\ atext # Some(<<>>)

\* C15 as stated: only leading plus signs are stripped, a plus sign
\* elsewhere stays in the text that is converted.
C15_AsStated == (AReturned /\ HasText) => aret = LeadingOnlyResult

A1234 == Finite(FALSE, <<"1", "2", "3", "4">>, 0)

\* C15: every plus sign is removed, wherever it stands: the result is the
\* result for the text without its plus signs, so "1+234" is 1234; a minus
\* sign is never removed: an amount written with it is negative, and a
\* minus sign that is not where float() reads a sign makes the result null.
C15_EveryPlusRemoved ==
    /\ (AReturned /\ HasText) =>
          aret = clean_amount(Some(Remove(atext[1], "+")), alocale, aconfig).value
    /\ (AReturned /\ atext = Some(<<"1", "+", "2", "3", "4">>)) => aret = Some(A1234)
    /\ (AReturned /\ ashape # None /\ ashape[1].sign = <<"-">> /\ aret[1].digits # <<>>)
          => aret[1].neg
    /\ (AReturned /\ atext \in {Some(<<"1", "-", "2", "3", "4">>), Some(<<"2", "3", "4", "-">>), Some(<<"-", "-", "1">>)})
          => aret = None

C15_Witness ==
    /\ AReturned
    /\ atext = Some(<<"1", "+", "2", "3", "4">>)
    /\ alocale = "en" /\ aconfig = None
    /\ aret = Some(A1234)
    /\ LeadingOnlyResult = None

\* ------------------------------------------------------------------------
\* Properties of parse_date
\* ------------------------------------------------------------------------
DReturned == dpc = "returned"

\* The patterns of the call, and where a pattern matches in the text.
DPatterns == ConfigOf(dlocale, dconfig).date_patterns
MatchesAt(pat, t, p) == MatchEnd(pat, 1, t, p) # 0
MatchesIn(pat, t) == \E p \in 1..Len(t) : MatchesAt(pat, t, p)

\* What the first pattern of the list that matches anywhere matches first.
FirstOfFirst(t) ==
    LET k == CHOOSE n \in 1..Len(DPatterns) :
                 /\ MatchesIn(DPatterns[n], t)
                 /\ \A j \in 1..(n - 1) : ~MatchesIn(DPatterns[j], t)
        p == CHOOSE q \in 1..Len(t) :
                 /\ MatchesAt(DPatterns[k], t, q)
                 /\ \A j \in 1..(q - 1) : ~MatchesAt(DPatterns[k], t, j)
    IN SubSeq(t, p, MatchEnd(DPatterns[k], 1, t, p) - 1)

DateIs(text, code, value) ==
    (DReturned /\ dtext = Some(text) /\ ConfigOf(dlocale, dconfig).code = code)
        => dret = value

PDone == ppc \in {"returned", "raised"}

\* What the caller gets: the transactions of the result, none when the
\* call returned None or raised.
Emitted == IF ppc = "returned" /\ pret # None THEN pret[1] ELSE <<>>

\* A row whose row string has a date-shaped and an amount-shaped match.
QualifiesStr(s) ==
    /\ \E p \in 1..Len(s) : MatchEnd(RowDatePattern, 1, s, p) # 0
    /\ \E p \in 1..Len(s) : MatchEnd(RowAmountPattern, 1, s, p) # 0

Qualifies(row) == Once(LAMBDA s : QualifiesStr(s), RowStr(row))

RECURSIVE QualifyingStrs(_, _)
QualifyingStrs(table, k) ==
    IF k > Len(table) THEN <<>>
    ELSE IF Qualifies(table[k]) THEN <<RowStr(table[k])>> \o QualifyingStrs(table, k + 1)
    ELSE QualifyingStrs(table, k + 1)

\* C10: the call emits one transaction for each row that has a date-shaped
\* and an amount-shaped match, none for another row, in the order of the
\* rows, whatever the other rows are.
Descriptions(txs) == [k \in 1..Len(txs) |-> txs[k].Description]

C10_AsStated == PDone => Descriptions(Emitted) = QualifyingStrs(ptable, 1)

\* The row of 15/01/2024 qualifies, the row after it makes float() raise,
\* and the caller gets no transaction.
C10_Witness ==
    /\ ppc = "raised"
    /\ pidx = 2
    /\ Len(transactions) = 1
    /\ transactions[1].Date = <<"1", "5", "/", "0", "1", "/", "2", "0", "2", "4">>
    /\ Qualifies(ptable[2])

\* Without a row that makes float() raise the claim holds.
NoRowRaises == \A k \in 1..Len(ptable) : RowStep(ptable[k], pfilename).kind # "raise"
C10_HoldsWithoutRaise == NoRowRaises => C10_AsStated

\* The row strings of the rows k..upto that have both matches.
RECURSIVE YieldingStrs(_, _, _)
YieldingStrs(table, k, upto) ==
    IF k > upto THEN <<>>
    ELSE IF Qualifies(table[k])
         THEN <<RowStr(table[k])>> \o YieldingStrs(table, k + 1, upto)
         ELSE YieldingStrs(table, k + 1, upto)

\* The first date-shaped match of s: the one that starts first.
FirstDateOf(s) ==
    LET p == CHOOSE q \in 1..Len(s) :
                 /\ MatchEnd(RowDatePattern, 1, s, q) # 0
                 /\ \A j \in 1..(q - 1) : MatchEnd(RowDatePattern, 1, s, j) = 0
    IN SubSeq(s, p, MatchEnd(RowDatePattern, 1, s, p) - 1)

\* The number the amount-shaped match m writes once its spaces are gone and
\* its comma is a period: with a comma its last two digits are decimals,
\* with a space all its digits are one integer.
WrittenAmount(m) ==
    LET digits == SelectSeq(m, LAMBDA c : c \in Digit)
        n == Len(digits)
    IN IF m[Len(m) - 2] = ","
       THEN Rounded(m[1] = "-", SubSeq(digits, 1, n - 2), SubSeq(digits, n - 1, n), 0)
       ELSE Rounded(m[1] = "-", digits, <<>>, 0)

LastAmountOf(s) ==
    Once(LAMBDA ms : WrittenAmount(ms[Len(ms)]), FindAll(RowAmountPattern, s))

IsTransactionOf(tx, s, source) ==
    /\ tx.Date = FirstDateOf(s)
    /\ tx.Amount = LastAmountOf(s)
    /\ tx.Description = s
    /\ tx.Source = source

A2300_17 == Finite(FALSE, <<"2", "3", "0", "0", "1", "7">>, -2)

\* C11: the transaction of a row has the first date-shaped match of the row
\* string as its date, the number of the last amount-shaped match as its
\* amount, the row string as its description and the identifier passed in
\* as its source; "15/01/2024 Grocery Store 45,50 2300,17" gives
\* 15/01/2024 and 2300.17.
C11_TransactionFields ==
    ppc # "idle" =>
       Once(LAMBDA strs :
               /\ Len(transactions) = Len(strs)
               /\ \A k \in 1..Len(strs) :
                     /\ IsTransactionOf(transactions[k], strs[k], pfilename)
                     /\ strs[k] = <<"1", "5", "/", "0", "1", "/", "2", "0", "2", "4", " ", "G", "r", "o", "c", "e", "r", "y", " ", "S", "t", "o", "r", "e", " ", "4", "5", ",", "5", "0", " ", "2", "3", "0", "0", ",", "1", "7">>
                           => /\ transactions[k].Date = <<"1", "5", "/", "0", "1", "/", "2", "0", "2", "4">>
                              /\ transactions[k].Amount = A2300_17,
            YieldingStrs(ptable, 1, pidx - 1))

C11_Witness ==
    /\ ppc = "returned"
    /\ pfilename = <<"s", "t", "m", "t", "_", "b">>
    /\ pret = Some(<<[Date |-> <<"1", "8", "/", "0", "1", "/", "2", "0", "2", "4">>,
                      Description |-> <<"1", "8", "/", "0", "1", "/", "2", "0", "2", "4", " ", "1", "9", "/", "0", "1", "/", "2", "0", "2", "4", " ", "-", " ", "5", ",", "0", "0", " ", "+", "1", " ", "0", "0", "0", ",", "0", "0">>,
                      Amount |-> Finite(FALSE, <<>>, 0),
                      Source |-> <<"s", "t", "m", "t", "_", "b">>],
                     [Date |-> <<"1", "5", "/", "0", "1", "/", "2", "0", "2", "4">>,
                      Description |-> <<"1", "5", "/", "0", "1", "/", "2", "0", "2", "4", " ", "G", "r", "o", "c", "e", "r", "y", " ", "S", "t", "o", "r", "e", " ", "4", "5", ",", "5", "0", " ", "2", "3", "0", "0", ",", "1", "7">>,
                      Amount |-> A2300_17,
                      Source |-> <<"s", "t", "m", "t", "_", "b">>]>>)

\* The rows of the table on which float() raises, and the rows that give a
\* transaction.
RaisingRows == {k \in 1..Len(ptable) : RowStep(ptable[k], pfilename).kind = "raise"}
AppendingRows == {k \in 1..Len(ptable) : RowStep(ptable[k], pfilename).kind = "append"}

\* C12: the parser raises nothing, whatever the whitespace inside the
\* amount-shaped match of a row is, and every row of the table is
\* processed: each row that gives a transaction has it in the result.
C12_AsStated ==
    psupplied =>
       /\ perror = "none"
       /\ PDone => Len(Emitted) = Cardinality(AppendingRows)

\* The first row has a carriage return between the sign and the digits of
\* its amount: float() raises, and the second row, which gives a
\* transaction when it is alone, is never reached.
C12_Witness ==
    /\ ppc = "raised" /\ perror = "ValueError"
    /\ pidx = 1
    /\ RowStr(ptable[1]) = <<"2", "0", "/", "0", "1", "/", "2", "0", "2", "4", " ", "F", "e", "e", " ", "-">> \o <<"\r">> \o <<"5", ",", "0", "0">>
    /\ Len(ptable) = 2
    /\ 2 \in AppendingRows

\* With no row on which float() raises, nothing is raised and every row is
\* processed.
C12_HoldsWithoutRaise == (psupplied /\ RaisingRows = {}) => C12_AsStated

\* C13: a supplied table of which no row gives a transaction, the table
\* with no row included, makes the parser return its no-transactions
\* outcome (None) normally, and a call with no table does not end so.
C13_AsStated ==
    /\ (PDone /\ psupplied /\ AppendingRows = {}) =>
          (ppc = "returned" /\ pret = None /\ perror = "none")
    /\ (PDone /\ ~psupplied) => ~(ppc = "returned" /\ pret = None)

\* The only row of the table has a tab between the digits and the decimals
\* of its amount: no row gives a transaction, and the call raises.
C13_Witness ==
    /\ ppc = "raised" /\ perror = "ValueError"
    /\ psupplied
    /\ Len(ptable) = 1
    /\ RowStr(ptable[1]) = <<"1", "7", "/", "0", "1", "/", "2", "0", "2", "4", " ", "R", "e", "f", " ", "1", "2">> \o <<"\t">> \o <<"3", "4">>
    /\ transactions = <<>>

\* With no row on which float() raises: None for a table without a
\* transaction, an AttributeError for no table.
C13_HoldsWithoutRaise ==
    RaisingRows = {} =>
       /\ C13_AsStated
       /\ (PDone /\ ~psupplied) => (ppc = "raised" /\ perror = "AttributeError")

====
